---- MODULE Spec2Model ----
(***************************************************************************)
(* CurrencyRateController: a poll loop and currency-change requests that   *)
(* all go through updateExchangeRate, which is serialised by a Mutex.      *)
(* One refresh = one invocation of updateExchangeRate.  JavaScript runs a  *)
(* handler and the promise continuations it makes ready to completion      *)
(* before the next timer, network answer or outside call is served, so an  *)
(* action is what happens between two such events.                         *)
(***************************************************************************)
EXTENDS Integers, Sequences, FiniteSets, TLC

(* ---------------- bounds ---------------- *)
\* unfinished refreshes plus armed timeouts at the same time: a call from
\* outside is only made while there is room left for it and for the refresh
\* of every armed timeout
MaxInFlight == 3
\* number of distinct results the Rate Source can answer with
MaxResult == 2

(* ---------------- values ---------------- *)
Null == "null"
Undefined == 0 - 1
NoHandle == 0

\* arguments tried for setCurrentCurrency and setNativeCurrency
QuoteCodes == {"eur", ""}
BaseSymbols == {"BTC"}

\* positions in the list of unfinished refreshes
Slots == 1 .. MaxInFlight
TimerIds == 1 .. MaxInFlight

defaultState ==
  [ conversionDate |-> 0,
    conversionRate |-> 0,
    currentCurrency |-> "usd",
    nativeCurrency |-> "ETH",
    pendingCurrentCurrency |-> Null,
    pendingNativeCurrency |-> Null,
    usdConversionRate |-> Undefined ]

\* the controller is constructed with includeUsdRate = true
includeUsdRate == TRUE

\* what the injected Rate Source may answer when it succeeds
RateResults(includeUsd) ==
  { [ conversionDate |-> k,
      conversionRate |-> 10 * k,
      usdConversionRate |-> IF includeUsd THEN 100 * k ELSE Undefined ] :
    k \in 1 .. MaxResult }

NoResult ==
  [ conversionDate |-> 0, conversionRate |-> 0, usdConversionRate |-> Undefined ]

\* JavaScript's a || b on string | null operands
Truthy(v) == v # Null /\ v # ""
Or(a, b) == IF Truthy(a) THEN a ELSE b

VARIABLES
  state,          \* this.state : CurrencyRateState
  count,          \* the Mutex's free permits (1 = unlocked)
  handle,         \* this.handle
  timers,         \* timeouts that are armed (set and neither fired nor cleared)
  refreshes,      \* the updateExchangeRate invocations that have not returned,
                  \* in the order they were called
  destroyed,      \* destroy() has been called
  lastFetch,      \* history: arguments and result of the last successful fetch
  settled,        \* history: how the promise of the last trigger that ran to
                  \* its end was settled
  addressBook,    \* AddressBookController: this.state.addressBook
  returned,       \* AddressBookController: << what the last call of set()
                  \* returned >>, empty before the first call
  calls           \* endowment:wasm: the calls made so far, with what they returned

\* the variables of the CurrencyRateController
rate == << state, count, handle, timers, refreshes, destroyed, lastFetch, settled >>
\* the variables of the other two components
others == << addressBook, returned, calls >>

vars == << rate, others >>

Setters == {"setCurrentCurrency", "setNativeCurrency"}
\* poll() called by the constructor or from outside, or by its own timeout
Polls == {"poll", "timeout"}

\* a fresh invocation of updateExchangeRate, suspended in mutex.acquire();
\* the trigger that awaits it has its own promise pending
Queued(trigger, arg) ==
  [ pc |-> "queued", trigger |-> trigger, arg |-> arg, caller |-> "pending",
    currentCurrency |-> Null, nativeCurrency |-> Null,
    pendingCurrentCurrency |-> Null, pendingNativeCurrency |-> Null,
    quote |-> Null, base |-> Null,
    preConversionDate |-> 0, preConversionRate |-> 0 ]

Active == DOMAIN refreshes
Fetching == { s \in Active : refreshes[s].pc = "fetching" }
Room == Len(refreshes) + Cardinality(timers) < MaxInFlight

\* the Mutex's queue: the invocations waiting in acquire(), oldest first
tasks ==
  LET F[i \in 0 .. Len(refreshes)] ==
        IF i = 0 THEN << >>
        ELSE IF refreshes[i].pc = "queued" THEN Append(F[i - 1], i)
             ELSE F[i - 1]
  IN  F[Len(refreshes)]

Without(seq, s) == [ i \in 1 .. (Len(seq) - 1) |-> IF i < s THEN seq[i] ELSE seq[i + 1] ]

\* setTimeout returns a timeout that is not armed yet; its caller stores it
\* in this.handle at once, so it may carry the name of one that is gone
FreshTimer == CHOOSE t \in TimerIds : /\ t \notin timers
                                      /\ \A u \in TimerIds : u < t => u \in timers

\* clearTimeout(h): a no-op on undefined and on a timeout that is not armed
clearTimeout(h) == timers \ {h}

\* no trigger has run to its end yet
NothingSettled == [ outcome |-> Null, value |-> Null ]

\* the other two components, constructed and not used
Elsewhere ==
  /\ addressBook = [ address \in {} |-> Null ]
  /\ returned = << >>
  /\ calls = << >>

(* ---------------- construction ---------------- *)
\* constructor: default state, then this.poll(), which runs up to its first
\* await: handle is undefined, updateExchangeRate is entered and queues on
\* the mutex.
\* variant: the constructor only schedules the first tick
Init_schedulesFirstTick ==
  /\ state = defaultState
  /\ count = 1
  /\ handle = 1
  /\ timers = {1}
  /\ refreshes = << >>
  /\ destroyed = FALSE
  /\ lastFetch = [ quote |-> Null, base |-> Null, result |-> NoResult ]
  /\ settled = NothingSettled
  /\ Elsewhere

Init ==
  /\ state = defaultState
  /\ count = 1
  /\ handle = NoHandle
  /\ timers = {}
  /\ refreshes = << Queued("poll", Null) >>
  /\ destroyed = FALSE
  /\ lastFetch = [ quote |-> Null, base |-> Null, result |-> NoResult ]
  /\ settled = NothingSettled
  /\ Elsewhere

(* ---------------- the mutex and updateExchangeRate ---------------- *)
\* updateExchangeRate is entered and calls mutex.acquire()
acquire(trigger, arg) ==
  refreshes' = Append(refreshes, Queued(trigger, arg))

\* the arguments updateExchangeRate passes to fetchExchangeRate
FetchArgs(st) ==
  [ quote |-> Or(st.pendingCurrentCurrency, st.currentCurrency),
    base |-> Or(st.pendingNativeCurrency, st.nativeCurrency) ]

\* variant: the lock is handed out although it is held
Admit_noLock(s) ==
  /\ tasks # << >>
  /\ s = Head(tasks)
  /\ count' = count - 1
  /\ refreshes' = [ refreshes EXCEPT ![s] =
       [ @ EXCEPT !.pc = "fetching",
                  !.arg = Null,
                  !.currentCurrency = state.currentCurrency,
                  !.nativeCurrency = state.nativeCurrency,
                  !.pendingCurrentCurrency = state.pendingCurrentCurrency,
                  !.pendingNativeCurrency = state.pendingNativeCurrency,
                  !.quote = FetchArgs(state).quote,
                  !.base = FetchArgs(state).base,
                  !.preConversionDate = state.conversionDate,
                  !.preConversionRate = state.conversionRate ] ]
  /\ UNCHANGED << state, handle, timers, destroyed, lastFetch, settled, others >>

\* variant: the mutex hands the lock to the newest waiter
Admit_newestFirst(s) ==
  /\ count > 0
  /\ tasks # << >>
  /\ s = tasks[Len(tasks)]
  /\ count' = count - 1
  /\ refreshes' = [ refreshes EXCEPT ![s] =
       [ @ EXCEPT !.pc = "fetching",
                  !.arg = Null,
                  !.currentCurrency = state.currentCurrency,
                  !.nativeCurrency = state.nativeCurrency,
                  !.pendingCurrentCurrency = state.pendingCurrentCurrency,
                  !.pendingNativeCurrency = state.pendingNativeCurrency,
                  !.quote = FetchArgs(state).quote,
                  !.base = FetchArgs(state).base,
                  !.preConversionDate = state.conversionDate,
                  !.preConversionRate = state.conversionRate ] ]
  /\ UNCHANGED << state, handle, timers, destroyed, lastFetch, settled, others >>

\* The mutex hands the lock to the head of its queue; updateExchangeRate
\* resumes, reads this.state and calls fetchExchangeRate.
Admit(s) ==
  /\ count > 0
  /\ tasks # << >>
  /\ s = Head(tasks)
  /\ count' = count - 1
  /\ refreshes' = [ refreshes EXCEPT ![s] =
       [ @ EXCEPT !.pc = "fetching",
                  !.arg = Null,
                  !.currentCurrency = state.currentCurrency,
                  !.nativeCurrency = state.nativeCurrency,
                  !.pendingCurrentCurrency = state.pendingCurrentCurrency,
                  !.pendingNativeCurrency = state.pendingNativeCurrency,
                  !.quote = FetchArgs(state).quote,
                  !.base = FetchArgs(state).base,
                  !.preConversionDate = state.conversionDate,
                  !.preConversionRate = state.conversionRate ] ]
  /\ UNCHANGED << state, handle, timers, destroyed, lastFetch, settled, others >>

\* variant: the commit writes the rate and the pair but leaves the pending
\* fields as they are
Commit_keepsPending(r, result) ==
  [ conversionDate |-> result.conversionDate,
    conversionRate |-> result.conversionRate,
    currentCurrency |-> Or(r.pendingCurrentCurrency, r.currentCurrency),
    nativeCurrency |-> Or(r.pendingNativeCurrency, r.nativeCurrency),
    pendingCurrentCurrency |-> state.pendingCurrentCurrency,
    pendingNativeCurrency |-> state.pendingNativeCurrency,
    usdConversionRate |-> result.usdConversionRate ]

\* variant: the commit resolves the pair from this.state as it is when the
\* fetch returns, not from the values read before the fetch
Commit_rereadsState(r, result) ==
  [ conversionDate |-> result.conversionDate,
    conversionRate |-> result.conversionRate,
    currentCurrency |-> Or(state.pendingCurrentCurrency, state.currentCurrency),
    nativeCurrency |-> Or(state.pendingNativeCurrency, state.nativeCurrency),
    pendingCurrentCurrency |-> Null,
    pendingNativeCurrency |-> Null,
    usdConversionRate |-> result.usdConversionRate ]

\* the state the update callback of the commit returns
Commit(r, result) ==
  [ conversionDate |-> result.conversionDate,
    conversionRate |-> result.conversionRate,
    currentCurrency |-> Or(r.pendingCurrentCurrency, r.currentCurrency),
    nativeCurrency |-> Or(r.pendingNativeCurrency, r.nativeCurrency),
    pendingCurrentCurrency |-> Null,
    pendingNativeCurrency |-> Null,
    usdConversionRate |-> result.usdConversionRate ]

\* safelyExecute(operation): a wrapper that does not propagate; whatever the
\* outcome of the operation, its own promise is fulfilled
safelyExecute(outcome) == "fulfilled"

\* variant: the triggers await updateExchangeRate itself, without the wrapper
Completion_noWrapper(trigger, outcome) ==
  [ outcome |-> outcome, value |-> "undefined" ]

\* How the promise of a trigger is settled when its refresh has settled with
\* outcome.  poll() and the setters await the wrapper and return nothing; the
\* promise of a direct call is the one of updateExchangeRate, which has no
\* return statement and no catch.
Completion(trigger, outcome) ==
  [ outcome |-> IF trigger = "updateExchangeRate" THEN outcome
                ELSE safelyExecute(outcome),
    value |-> "undefined" ]

\* variant: poll() awaits updateExchangeRate without safelyExecute, so a
\* rejection leaves poll() before the timeout is set
Resume_noSwallow(s, outcome) ==
  /\ IF refreshes[s].trigger \in Polls /\ outcome = "fulfilled"
     THEN /\ handle' = FreshTimer
          /\ timers' = timers \cup {FreshTimer}
     ELSE UNCHANGED << handle, timers >>
  /\ settled' = Completion(refreshes[s].trigger, outcome)

\* The trigger that awaited the refresh s resumes.  safelyExecute has
\* swallowed a rejection, so poll() sets its timeout whatever the outcome; a
\* setter and a direct caller have nothing left to do.
Resume(s, outcome) ==
  /\ IF refreshes[s].trigger \in Polls
     THEN /\ handle' = FreshTimer
          /\ timers' = timers \cup {FreshTimer}
     ELSE UNCHANGED << handle, timers >>
  /\ settled' = Completion(refreshes[s].trigger, outcome)

\* fetchExchangeRate resolves: commit, finally { releaseLock() }, return
FetchResolves(s, result) ==
  /\ s \in Fetching
  /\ state' = Commit(refreshes[s], result)
  /\ count' = count + 1
  /\ refreshes' = Without(refreshes, s)
  /\ Resume(s, "fulfilled")
  /\ lastFetch' = [ quote |-> refreshes[s].quote, base |-> refreshes[s].base,
                    result |-> result ]
  /\ UNCHANGED << destroyed, others >>

\* variant: a failed fetch clears the pending fields
FetchRejects_clearsPending(s) ==
  /\ s \in Fetching
  /\ state' = [ state EXCEPT !.pendingCurrentCurrency = Null,
                             !.pendingNativeCurrency = Null ]
  /\ count' = count + 1
  /\ refreshes' = Without(refreshes, s)
  /\ Resume(s, "rejected")
  /\ UNCHANGED << destroyed, lastFetch, others >>

\* variant: the lock is released after the commit, inside the try block, so
\* a failed fetch leaves it held
FetchRejects_keepsLock(s) ==
  /\ s \in Fetching
  /\ refreshes' = Without(refreshes, s)
  /\ Resume(s, "rejected")
  /\ UNCHANGED << state, count, destroyed, lastFetch, others >>

\* fetchExchangeRate rejects: the try block is left, finally { releaseLock() },
\* and updateExchangeRate rejects
FetchRejects(s) ==
  /\ s \in Fetching
  /\ count' = count + 1
  /\ refreshes' = Without(refreshes, s)
  /\ Resume(s, "rejected")
  /\ UNCHANGED << state, destroyed, lastFetch, others >>

(* ---------------- the triggers ---------------- *)
\* variant: the requested code is written to the confirmed field
setCurrentCurrency_writesConfirmed(c) ==
  /\ Room
  /\ state' = [ state EXCEPT !.currentCurrency = c ]
  /\ acquire("setCurrentCurrency", c)
  /\ UNCHANGED << count, handle, timers, destroyed, lastFetch, settled, others >>

\* variant: the refresh is started but not awaited, so the promise of the
\* setter is fulfilled at once
setCurrentCurrency_noAwait(c) ==
  /\ Room
  /\ state' = [ state EXCEPT !.pendingCurrentCurrency = c ]
  /\ refreshes' = Append(refreshes, [ Queued("setCurrentCurrency", c)
                                        EXCEPT !.caller = "fulfilled" ])
  /\ UNCHANGED << count, handle, timers, destroyed, lastFetch, settled, others >>

\* setCurrentCurrency up to its await: the pending write, then
\* safelyExecute(() => this.updateExchangeRate()) which queues on the mutex
setCurrentCurrency(c) ==
  /\ Room
  /\ state' = [ state EXCEPT !.pendingCurrentCurrency = c ]
  /\ acquire("setCurrentCurrency", c)
  /\ UNCHANGED << count, handle, timers, destroyed, lastFetch, settled, others >>

\* setNativeCurrency up to its await
setNativeCurrency(symbol) ==
  /\ Room
  /\ state' = [ state EXCEPT !.pendingNativeCurrency = symbol ]
  /\ acquire("setNativeCurrency", symbol)
  /\ UNCHANGED << count, handle, timers, destroyed, lastFetch, settled, others >>

\* a direct call of the public updateExchangeRate()
CallUpdateExchangeRate ==
  /\ Room
  /\ acquire("updateExchangeRate", Null)
  /\ UNCHANGED << state, count, handle, timers, destroyed, lastFetch, settled, others >>

\* poll() up to its await, entered when the timeouts in armed are outstanding:
\* this.handle && clearTimeout(this.handle), then updateExchangeRate queues
poll(armed, caller) ==
  /\ timers' = armed \ {handle}
  /\ acquire(caller, Null)

\* the timeout t fires and its callback calls this.poll()
TimerFires(t) ==
  /\ t \in timers
  /\ poll(timers \ {t}, "timeout")
  /\ UNCHANGED << state, count, handle, destroyed, lastFetch, settled, others >>

\* a direct call of the public poll()
CallPoll ==
  /\ Room
  /\ poll(timers, "poll")
  /\ UNCHANGED << state, count, handle, destroyed, lastFetch, settled, others >>

\* super.destroy(): the controller is detached from the State Store's
\* listeners; update() keeps working, so a later commit is still applied
superDestroy == destroyed' = TRUE

\* variant: destroy() also empties the mutex's queue, so a refresh that waits
\* for the lock is dropped
destroy_dropsWaiting ==
  /\ superDestroy
  /\ timers' = IF handle # NoHandle THEN clearTimeout(handle) ELSE timers
  /\ refreshes' = SelectSeq(refreshes, LAMBDA r : r.pc = "fetching")
  /\ UNCHANGED << state, count, handle, lastFetch, settled, others >>

\* destroy(): super.destroy(), then the timeout in this.handle is cleared
destroy ==
  /\ superDestroy
  /\ timers' = IF handle # NoHandle THEN clearTimeout(handle) ELSE timers
  /\ UNCHANGED << state, count, handle, refreshes, lastFetch, settled, others >>

FetchSettles(s) ==
  \/ \E result \in RateResults(includeUsdRate) : FetchResolves(s, result)
  \/ FetchRejects(s)

Next ==
  \/ \E c \in QuoteCodes : setCurrentCurrency(c)
  \/ \E symbol \in BaseSymbols : setNativeCurrency(symbol)
  \/ CallUpdateExchangeRate
  \/ \E t \in TimerIds : TimerFires(t)
  \/ \E s \in Slots : Admit(s)
  \/ \E s \in Slots : \E result \in RateResults(includeUsdRate) :
       FetchResolves(s, result)
  \/ \E s \in Slots : FetchRejects(s)
  \/ destroy

\* the controller driven through its actions, its timer and direct refreshes
Spec == Init /\ [][Next]_vars

\* the same, with poll() also called from outside while the loop is running
NextWithPoll == Next \/ CallPoll

PollSpec == Init /\ [][NextWithPoll]_vars

\* The event loop runs every continuation that is ready, every armed timeout
\* fires, and every Rate Source call settles; calls from outside are free.
Fairness ==
  /\ WF_vars(\E s \in Slots : Admit(s))
  /\ WF_vars(\E s \in Slots : FetchSettles(s))
  /\ WF_vars(\E t \in TimerIds : TimerFires(t))

LiveSpec == Spec /\ Fairness

TypeOK ==
  /\ count \in 0 .. 1
  /\ handle \in TimerIds \cup {NoHandle}
  /\ timers \subseteq TimerIds
  /\ Len(refreshes) + Cardinality(timers) <= MaxInFlight

(* ---------------- endowment:wasm ---------------- *)
\* number of calls of the builder and of the getters it returned
MaxCalls == 3

permissionName == "endowment:wasm"

PermissionType == [ Endowment |-> "Endowment", RestrictedMethod |-> "RestrictedMethod" ]

\* arguments tried for specificationBuilder and for endowmentGetter; both
\* parameters are optional
BuilderOptions == {"undefined", "{}", "{methodHooks}"}
GetterOptions == {"undefined", "{}", "{requestingOrigin}"}

\* variant: the allowed caveats are taken from the builder options
specificationBuilder_readsOptions(builderOptions) ==
  [ permissionType |-> PermissionType.Endowment,
    targetKey |-> permissionName,
    allowedCaveats |-> IF builderOptions = "undefined" THEN Null ELSE builderOptions,
    endowmentGetter |-> [ getterOptions \in GetterOptions |-> << "WebAssembly" >> ] ]

\* the specification the builder returns; its endowmentGetter is a function
\* of the getter options
specificationBuilder(builderOptions) ==
  [ permissionType |-> PermissionType.Endowment,
    targetKey |-> permissionName,
    allowedCaveats |-> Null,
    endowmentGetter |-> [ getterOptions \in GetterOptions |-> << "WebAssembly" >> ] ]

webAssemblyEndowmentBuilder ==
  [ targetKey |-> permissionName,
    specificationBuilder |->
      [ builderOptions \in BuilderOptions |-> specificationBuilder(builderOptions) ] ]

\* webAssemblyEndowmentBuilder.specificationBuilder(builderOptions)
CallSpecificationBuilder(builderOptions) ==
  /\ Len(calls) < MaxCalls
  /\ calls' = Append(calls,
       [ op |-> "specificationBuilder", of |-> 0, arg |-> builderOptions,
         result |-> webAssemblyEndowmentBuilder.specificationBuilder[builderOptions] ])
  /\ UNCHANGED << rate, addressBook, returned >>

\* specification.endowmentGetter(getterOptions), on the specification that
\* call i returned
CallEndowmentGetter(i, getterOptions) ==
  /\ Len(calls) < MaxCalls
  /\ i \in DOMAIN calls
  /\ calls[i].op = "specificationBuilder"
  /\ calls' = Append(calls,
       [ op |-> "endowmentGetter", of |-> i, arg |-> getterOptions,
         result |-> calls[i].result.endowmentGetter[getterOptions] ])
  /\ UNCHANGED << rate, addressBook, returned >>

WasmNext ==
  \/ \E builderOptions \in BuilderOptions : CallSpecificationBuilder(builderOptions)
  \/ \E i \in 1 .. MaxCalls : \E getterOptions \in GetterOptions :
       CallEndowmentGetter(i, getterOptions)

\* the endowment builder called again and again
WasmSpec == Init /\ [][WasmNext]_vars

(* ---------------- AddressBookController ---------------- *)
\* arguments tried for set() and delete(): two addresses of 40 hexadecimal
\* digits that differ in case only, one that is too short, and the empty one
Addresses ==
  { "0xaaaaaaaaaaaaaaaaaaaaaaaaaaaaaaaaaaaaaaaa",
    "0xAAAAAAAAAAAAAAAAAAAAAAAAAAAAAAAAAAAAAAAA",
    "0xaa",
    "" }
Names == {"alice", "bob"}
\* chainId and memo are optional
NoChainId == 0 - 1
ChainIds == {NoChainId, 1, 3}
NoMemo == "undefined"
Memos == {NoMemo, "", "memo"}

\* isValidAddress of ethereumjs-util: 0x followed by 40 hexadecimal digits of
\* either case
isValidAddress(address) ==
  address \in { "0xaaaaaaaaaaaaaaaaaaaaaaaaaaaaaaaaaaaaaaaa",
                "0xAAAAAAAAAAAAAAAAAAAAAAAAAAAAAAAAAAAAAAAA" }

\* xtend: a new object with the own properties of a, then those of b
extend(a, b) ==
  [ key \in DOMAIN a \cup DOMAIN b |-> IF key \in DOMAIN b THEN b[key] ELSE a[key] ]

\* variant: the arguments of extend are swapped, so an entry that is there
\* already is kept
set_keepsOldEntry(address, name, chainId, memo) ==
  /\ IF ~ isValidAddress(address)
     THEN /\ returned' = << FALSE >>
          /\ UNCHANGED addressBook
     ELSE /\ addressBook' = extend(
               [ key \in {address} |->
                   [ address |-> address,
                     name |-> name,
                     chainId |-> IF chainId = NoChainId THEN 1 ELSE chainId,
                     memo |-> IF memo = NoMemo THEN "" ELSE memo ] ],
               addressBook)
          /\ returned' = << TRUE >>
  /\ UNCHANGED << rate, calls >>

\* set(address, name, chainId = 1, memo = '')
set(address, name, chainId, memo) ==
  /\ IF ~ isValidAddress(address)
     THEN /\ returned' = << FALSE >>
          /\ UNCHANGED addressBook
     ELSE /\ addressBook' = extend(addressBook,
               [ key \in {address} |->
                   [ address |-> address,
                     name |-> name,
                     chainId |-> IF chainId = NoChainId THEN 1 ELSE chainId,
                     memo |-> IF memo = NoMemo THEN "" ELSE memo ] ])
          /\ returned' = << TRUE >>
  /\ UNCHANGED << rate, calls >>

\* delete(address): the property is deleted and the state updated with a copy
delete(address) ==
  /\ addressBook' = [ key \in DOMAIN addressBook \ {address} |-> addressBook[key] ]
  /\ UNCHANGED << rate, returned, calls >>

\* clear()
clear ==
  /\ addressBook' = [ key \in {} |-> Null ]
  /\ UNCHANGED << rate, returned, calls >>

BookNext ==
  \/ \E address \in Addresses : \E name \in Names :
       \E chainId \in ChainIds : \E memo \in Memos :
         set(address, name, chainId, memo)
  \/ \E address \in Addresses : delete(address)
  \/ clear

\* the address book driven through set, delete and clear
BookSpec == Init /\ [][BookNext]_vars

(* ======================= the claims ======================= *)

\* C1: at most one refresh is between "lock acquired" and "lock released" at
\* any instant: no two Rate Source calls are in flight at the same time, and
\* the lock is held exactly while one is.
C1_OneRefreshInFlight ==
  /\ Cardinality(Fetching) <= 1
  /\ count = 1 - Cardinality(Fetching)

\* a refresh holds the lock while two more wait for it
C1_Witness == Cardinality(Fetching) = 1 /\ Len(tasks) >= 2

\* C2 (as claimed): once destroy() has been called no poll timer fires.
C2_NoTickAfterDestroy ==
  [][ destroyed => ~ (\E t \in TimerIds : TimerFires(t)) ]_vars

\* C3: the step that commits a successful fetch replaces every field at once:
\* the rate, date and usd rate of the result, the pair the fetch was called
\* with, and both pending fields null.
C3_CommitIsOneFullReplace ==
  [][ \A s \in Slots : \A result \in RateResults(includeUsdRate) :
        FetchResolves(s, result) =>
          state' = [ conversionDate |-> result.conversionDate,
                     conversionRate |-> result.conversionRate,
                     currentCurrency |-> refreshes[s].quote,
                     nativeCurrency |-> refreshes[s].base,
                     pendingCurrentCurrency |-> Null,
                     pendingNativeCurrency |-> Null,
                     usdConversionRate |-> result.usdConversionRate ] ]_vars

\* a commit has resolved a pending quote and a pending base together
C3_Witness ==
  /\ lastFetch.quote = "eur" /\ lastFetch.base = "BTC"
  /\ state.currentCurrency = "eur" /\ state.nativeCurrency = "BTC"
  /\ state.pendingCurrentCurrency = Null /\ state.pendingNativeCurrency = Null
  /\ state.conversionRate > 0

\* C4: after the first successful commit the stored rate, date and usd rate
\* are those of the most recent successful fetch, and that fetch was called
\* with exactly the stored pair (currentCurrency, nativeCurrency).
C4_RateDescribesStoredPair ==
  lastFetch.quote # Null =>
    /\ state.currentCurrency = lastFetch.quote
    /\ state.nativeCurrency = lastFetch.base
    /\ state.conversionDate = lastFetch.result.conversionDate
    /\ state.conversionRate = lastFetch.result.conversionRate
    /\ state.usdConversionRate = lastFetch.result.usdConversionRate

\* a rate is stored while a refresh whose snapshot predates a newer request
\* is in flight
C4_Witness ==
  /\ lastFetch.quote # Null
  /\ \E s \in Fetching : /\ refreshes[s].pendingCurrentCurrency = Null
                         /\ state.pendingCurrentCurrency = "eur"

\* C5: the step in which a fetch fails writes nothing: the whole state is
\* the one before the step, pending fields included, and the confirmed pair,
\* rate and date are still those read when the fetch was started.
C5_FailedFetchWritesNothing ==
  [][ \A s \in Slots :
        FetchRejects(s) =>
          /\ state' = state
          /\ state'.currentCurrency = refreshes[s].currentCurrency
          /\ state'.nativeCurrency = refreshes[s].nativeCurrency
          /\ state'.conversionDate = refreshes[s].preConversionDate
          /\ state'.conversionRate = refreshes[s].preConversionRate
          /\ FetchArgs(state') = FetchArgs(state) ]_vars

\* every fetch so far has failed (poll() has set its timeout, nothing is in
\* flight and no rate was ever stored) and both requested values are still
\* pending
C5_Witness ==
  /\ refreshes = << >>
  /\ handle \in timers
  /\ state.conversionDate = 0
  /\ state.pendingCurrentCurrency = "eur"
  /\ state.pendingNativeCurrency = "BTC"

\* C6: the step of a setter call writes the requested value to its pending
\* field and to no other field, takes no lock and starts no fetch; its
\* refresh is left waiting at the end of the mutex's queue.
C6_PendingWriteIsImmediate ==
  [][ /\ \A c \in QuoteCodes :
           setCurrentCurrency(c) =>
             /\ state' = [ state EXCEPT !.pendingCurrentCurrency = c ]
             /\ count' = count
             /\ Fetching' = Fetching
             /\ refreshes'[Len(refreshes')].pc = "queued"
      /\ \A symbol \in BaseSymbols :
           setNativeCurrency(symbol) =>
             /\ state' = [ state EXCEPT !.pendingNativeCurrency = symbol ]
             /\ count' = count
             /\ Fetching' = Fetching
             /\ refreshes'[Len(refreshes')].pc = "queued" ]_vars

\* a setter has written its pending value while another refresh, which did
\* not see that value, holds the lock
C6_Witness ==
  /\ count = 0
  /\ \E s \in Fetching : refreshes[s].pendingCurrentCurrency = Null
  /\ \E s \in Active : /\ refreshes[s].pc = "queued"
                       /\ refreshes[s].trigger = "setCurrentCurrency"
                       /\ refreshes[s].arg = "eur"
  /\ state.pendingCurrentCurrency = "eur"

\* C7 (as claimed): a setter has completed by the time the Rate Source call
\* it triggered is pending.
C7_SetterDoneBeforeFetchSettles ==
  \A s \in Fetching :
    refreshes[s].trigger \in Setters => refreshes[s].caller = "fulfilled"

\* C7 (amended): the promise of a setter stays pending for as long as the
\* refresh it triggered is queued or fetching; it settles only when that
\* refresh has settled.
C7_SetterAwaitsRefresh ==
  \A s \in Active :
    refreshes[s].trigger \in Setters => refreshes[s].caller = "pending"

\* the fetch triggered by a setter is in flight and the setter has not
\* completed
C7_Witness ==
  \E s \in Fetching : /\ refreshes[s].trigger \in Setters
                      /\ refreshes[s].caller = "pending"

PollFetching == \E s \in Fetching : refreshes[s].trigger \in Polls

\* C8: unless destroy() is called, the poll loop never stops: a timeout is
\* armed again and again and a poll-triggered Rate Source call is made again
\* and again, whatever fails and whatever is requested in between.
C8_PollLoopKeepsTicking ==
  /\ []<>(destroyed \/ timers # {})
  /\ []<>(destroyed \/ PollFetching)

\* every poll-triggered refresh so far has failed (no rate was ever stored)
\* and the next timeout is armed
C8_Witness ==
  /\ ~ destroyed
  /\ state.conversionDate = 0
  /\ handle \in timers
  /\ refreshes = << >>

\* C9 (as claimed): a pending field goes from a value v to null only in the
\* commit of a fetch that was called with v.
C9_PendingClearedOnlyByItsFetch ==
  [][ /\ (Truthy(state.pendingCurrentCurrency)
           /\ state'.pendingCurrentCurrency = Null)
         => \E s \in Fetching : \E result \in RateResults(includeUsdRate) :
              /\ FetchResolves(s, result)
              /\ refreshes[s].quote = state.pendingCurrentCurrency
      /\ (Truthy(state.pendingNativeCurrency)
           /\ state'.pendingNativeCurrency = Null)
         => \E s \in Fetching : \E result \in RateResults(includeUsdRate) :
              /\ FetchResolves(s, result)
              /\ refreshes[s].base = state.pendingNativeCurrency ]_vars

\* C10 (as claimed): the refresh triggered by the newest setter call of a
\* dimension calls the Rate Source with the value that call requested.
C10_OwnRefreshFetchesRequested ==
  [][ \A s \in Active :
        ( /\ Admit(s)
          /\ refreshes[s].trigger \in Setters
          /\ Truthy(refreshes[s].arg)
          /\ \A t \in Active :
                t > s => refreshes[t].trigger # refreshes[s].trigger )
        => IF refreshes[s].trigger = "setCurrentCurrency"
           THEN refreshes'[s].quote = refreshes[s].arg
           ELSE refreshes'[s].base = refreshes[s].arg ]_vars

\* C11: every specification the builder returns, whatever its options and
\* whatever was called before, has permissionType Endowment, targetKey
\* 'endowment:wasm' (the builder's own targetKey), allowedCaveats null and no
\* other field but endowmentGetter, and every getter call, whatever its
\* options, returns exactly ['WebAssembly'].
C11_WasmSpecificationIsConstant ==
  \A i \in DOMAIN calls :
    IF calls[i].op = "specificationBuilder"
    THEN /\ DOMAIN calls[i].result =
              {"permissionType", "targetKey", "allowedCaveats", "endowmentGetter"}
         /\ calls[i].result.permissionType = "Endowment"
         /\ calls[i].result.targetKey = "endowment:wasm"
         /\ calls[i].result.targetKey = webAssemblyEndowmentBuilder.targetKey
         /\ calls[i].result.allowedCaveats = Null
         /\ \A getterOptions \in GetterOptions :
              calls[i].result.endowmentGetter[getterOptions] = << "WebAssembly" >>
         /\ \A j \in DOMAIN calls :
              calls[j].op = "specificationBuilder" => calls[j].result = calls[i].result
    ELSE calls[i].result = << "WebAssembly" >>

\* the builder was called twice with different options, and the getter of
\* the second specification was called with options
C11_Witness ==
  /\ Len(calls) = 3
  /\ calls[1].op = "specificationBuilder" /\ calls[1].arg = "undefined"
  /\ calls[2].op = "specificationBuilder" /\ calls[2].arg = "{methodHooks}"
  /\ calls[3].op = "endowmentGetter" /\ calls[3].of = 2
  /\ calls[3].arg = "{requestingOrigin}"

\* C12: refreshes is in the order of the calls of mutex.acquire().  The step
\* that admits a refresh to its fetch, and the step in which its fetch
\* settles (commit or failure), are taken only by the oldest unfinished
\* refresh: no refresh that asked for the lock earlier is still waiting or
\* fetching.
C12_FifoAdmissionAndCommit ==
  [][ \A s \in Active :
        (Admit(s) \/ FetchSettles(s)) => \A t \in Active : t >= s ]_vars

\* the constructor's poll has failed and is over; the refresh of a later
\* setNativeCurrency is fetching while a refresh requested after it waits
C12_Witness ==
  /\ state.conversionDate = 0
  /\ handle \in timers
  /\ Len(refreshes) = 2
  /\ refreshes[1].pc = "fetching" /\ refreshes[1].trigger = "setNativeCurrency"
  /\ refreshes[2].pc = "queued" /\ refreshes[2].trigger = "setCurrentCurrency"

\* C13: the step in which the fetch of the lock holder settles, with a result
\* or with a failure, leaves the lock free; so, every fetch settling in the
\* end, the lock is never held for ever, and the oldest unfinished refresh
\* never waits for ever: it keeps its place until it is admitted, and by C12
\* every waiting refresh becomes the oldest one.
C13_LockAlwaysReleased ==
  /\ [][ \A s \in Slots : FetchSettles(s) => count = 0 /\ count' = 1 ]_vars
  /\ []<>(count = 1)
  /\ []<>(refreshes = << >> \/ refreshes[1].pc = "fetching")

\* every fetch so far has failed, and the refresh of the first tick, which had
\* to wait for the lock, holds it
C13_Witness ==
  /\ state.conversionDate = 0
  /\ timers = {}
  /\ count = 0
  /\ Len(refreshes) = 2
  /\ refreshes[1].pc = "fetching" /\ refreshes[1].trigger = "timeout"

\* C14 (as claimed): the step that admits a refresh calls the Rate Source
\* with the pending quote whenever the pending quote is not null, whatever
\* string it is, and with the confirmed quote otherwise, and likewise for the
\* base; the commit of that fetch stores exactly the pair it was called with.
C14_PendingUsedWheneverNotNull ==
  [][ /\ \A s \in Active :
           Admit(s) =>
             /\ refreshes'[s].quote =
                  IF state.pendingCurrentCurrency # Null
                  THEN state.pendingCurrentCurrency ELSE state.currentCurrency
             /\ refreshes'[s].base =
                  IF state.pendingNativeCurrency # Null
                  THEN state.pendingNativeCurrency ELSE state.nativeCurrency
      /\ \A s \in Active : \A result \in RateResults(includeUsdRate) :
           FetchResolves(s, result) =>
             /\ state'.currentCurrency = refreshes[s].quote
             /\ state'.nativeCurrency = refreshes[s].base ]_vars

\* C15: destroy() leaves every unfinished refresh, the lock and the state as
\* they are.  Afterwards a waiting refresh can still be admitted and a fetch
\* in flight can still resolve, and the step in which it resolves still
\* replaces the whole state (pending fields null) and frees the lock.
C15_DestroyAbortsNoRefresh ==
  /\ [][ destroy => UNCHANGED << refreshes, count, state >> ]_vars
  /\ [](destroyed =>
          /\ (count > 0 /\ tasks # << >>) => ENABLED Admit(Head(tasks))
          /\ \A s \in Fetching : \A result \in RateResults(includeUsdRate) :
               ENABLED FetchResolves(s, result))
  /\ [][ \A s \in Slots : \A result \in RateResults(includeUsdRate) :
           (destroyed /\ FetchResolves(s, result)) =>
             /\ state' = [ conversionDate |-> result.conversionDate,
                           conversionRate |-> result.conversionRate,
                           currentCurrency |-> refreshes[s].quote,
                           nativeCurrency |-> refreshes[s].base,
                           pendingCurrentCurrency |-> Null,
                           pendingNativeCurrency |-> Null,
                           usdConversionRate |-> result.usdConversionRate ]
             /\ count' = 1 ]_vars

\* destroy() was called while the fetch of the constructor's poll was in
\* flight and the refresh of a setter waited behind it; nothing was committed
\* yet
C15_Witness ==
  /\ destroyed
  /\ state.conversionDate = 0
  /\ handle = NoHandle
  /\ Len(refreshes) = 2
  /\ refreshes[1].pc = "fetching" /\ refreshes[1].trigger = "poll"
  /\ refreshes[2].pc = "queued" /\ refreshes[2].trigger = "setCurrentCurrency"
  /\ state.pendingCurrentCurrency = "eur"

\* C16 (as claimed): a poll-triggered Rate Source call is in flight only when
\* a timeout has fired: the first one is made by the first tick.
C16_FirstFetchAtFirstTick ==
  \A s \in Fetching : refreshes[s].trigger \in Polls => refreshes[s].trigger = "timeout"

\* C16 (amended): the constructor's poll() finds no handle to clear and
\* dispatches a refresh at once, so no timeout is set when the constructor
\* returns.  As long as no timeout was ever set, none is armed and that
\* refresh is the oldest unfinished one, admitted as soon as the mutex serves
\* it; the first timeout is set, and armed, in the step in which that refresh
\* settles.
C16_FetchFirstThenArm ==
  /\ handle = NoHandle
  /\ [](handle = NoHandle =>
          /\ timers = {}
          /\ refreshes # << >>
          /\ refreshes[1].trigger = "poll"
          /\ refreshes[1].pc = "queued" => ENABLED Admit(1))
  /\ [][ (handle = NoHandle /\ handle' # NoHandle) =>
           /\ \E s \in Slots : FetchSettles(s) /\ refreshes[s].trigger = "poll"
           /\ handle' \in timers' ]_vars

\* no setter was called and no timeout was ever set, and the fetch of the
\* constructor's poll is in flight
C16_Witness ==
  /\ state = defaultState
  /\ handle = NoHandle /\ timers = {}
  /\ ~ destroyed
  /\ Len(refreshes) = 1
  /\ refreshes[1].pc = "fetching" /\ refreshes[1].trigger = "poll"
  /\ refreshes[1].quote = "usd" /\ refreshes[1].base = "ETH"

\* C17 (as claimed): at most one timeout is armed at any instant, also when
\* poll() is called from outside while the refresh of an earlier poll() is
\* unfinished.
C17_AtMostOneTimerArmed == Cardinality(timers) <= 1

\* C18: whenever the fetch of a refresh settles, with a failure as with a
\* result, the promise of the poll() or the setter that awaits it is
\* fulfilled, with no value; and when every fetch so far has failed, the
\* next one that succeeds is committed in full.
C18_TriggersNeverSeeFailure ==
  /\ [][ \A s \in Slots :
           (FetchSettles(s) /\ refreshes[s].trigger \in Polls \cup Setters) =>
             settled' = [ outcome |-> "fulfilled", value |-> "undefined" ] ]_vars
  /\ [][ \A s \in Slots : \A result \in RateResults(includeUsdRate) :
           ( /\ settled.outcome # Null
             /\ state.conversionDate = 0
             /\ FetchResolves(s, result) ) =>
             state' = [ conversionDate |-> result.conversionDate,
                        conversionRate |-> result.conversionRate,
                        currentCurrency |-> refreshes[s].quote,
                        nativeCurrency |-> refreshes[s].base,
                        pendingCurrentCurrency |-> Null,
                        pendingNativeCurrency |-> Null,
                        usdConversionRate |-> result.usdConversionRate ] ]_vars

\* the fetches of the constructor's poll and of setCurrentCurrency('eur')
\* have both failed, both calls have completed, and the first tick is trying
\* 'eur' again
C18_Witness ==
  /\ state.conversionDate = 0
  /\ settled.outcome = "fulfilled"
  /\ state.pendingCurrentCurrency = "eur"
  /\ Len(refreshes) = 1
  /\ refreshes[1].pc = "fetching" /\ refreshes[1].trigger = "timeout"
  /\ refreshes[1].quote = "eur"

\* C19 (as claimed): the promise of a direct call of updateExchangeRate is
\* fulfilled with the committed RateState when the fetch resolves, and is
\* fulfilled, not rejected, when the fetch fails.
C19_RefreshYieldsStateOrFailsSilently ==
  [][ \A s \in Active :
        refreshes[s].trigger = "updateExchangeRate" =>
          /\ \A result \in RateResults(includeUsdRate) :
               FetchResolves(s, result) =>
                 settled' = [ outcome |-> "fulfilled", value |-> "RateState" ]
          /\ FetchRejects(s) => settled'.outcome = "fulfilled" ]_vars

\* C20: a call of set() with an invalid address returns false and leaves the
\* address book as it is; with a valid address it returns true and the book
\* afterwards has the entry { address, name, chainId, memo } (the defaults 1
\* and '' for an argument left out) under the key address, in place of any
\* earlier one, and every other entry as before.  delete(a) leaves no entry
\* under a and the others as before, clear() leaves none, and every stored
\* entry has its key as address.
C20_AddressBookSetDeleteClear ==
  /\ [][ \A address \in Addresses : \A name \in Names :
         \A chainId \in ChainIds : \A memo \in Memos :
           set(address, name, chainId, memo) =>
             IF address \in { "0xaa", "" }
             THEN returned' = << FALSE >> /\ addressBook' = addressBook
             ELSE /\ returned' = << TRUE >>
                  /\ DOMAIN addressBook' = DOMAIN addressBook \cup {address}
                  /\ addressBook'[address] =
                       [ address |-> address,
                         name |-> name,
                         chainId |-> IF chainId = NoChainId THEN 1 ELSE chainId,
                         memo |-> IF memo = NoMemo THEN "" ELSE memo ]
                  /\ \A other \in DOMAIN addressBook \ {address} :
                       addressBook'[other] = addressBook[other] ]_vars
  /\ [][ \A address \in Addresses :
           delete(address) =>
             /\ DOMAIN addressBook' = DOMAIN addressBook \ {address}
             /\ \A other \in DOMAIN addressBook' :
                  addressBook'[other] = addressBook[other] ]_vars
  /\ [][ clear => DOMAIN addressBook' = {} ]_vars
  /\ [](\A key \in DOMAIN addressBook : addressBook[key].address = key)

\* both valid addresses are stored, one with a chain id and a memo of its
\* own, and the last call of set() was refused
C20_Witness ==
  /\ returned = << FALSE >>
  /\ DOMAIN addressBook = { "0xaaaaaaaaaaaaaaaaaaaaaaaaaaaaaaaaaaaaaaaa",
                            "0xAAAAAAAAAAAAAAAAAAAAAAAAAAAAAAAAAAAAAAAA" }
  /\ addressBook["0xaaaaaaaaaaaaaaaaaaaaaaaaaaaaaaaaaaaaaaaa"] =
       [ address |-> "0xaaaaaaaaaaaaaaaaaaaaaaaaaaaaaaaaaaaaaaaa",
         name |-> "bob", chainId |-> 3, memo |-> "memo" ]
  /\ addressBook["0xAAAAAAAAAAAAAAAAAAAAAAAAAAAAAAAAAAAAAAAA"].chainId = 1
====
